---- MODULE Spec2Model ----
(***************************************************************************)
(* tongen: a concurrent vanity-address search.  runWalletGenerator starts  *)
(* one progress reporter (logProgress) and config.Threads workers          *)
(* (processWallets) that share a counter, a stop channel and a sync.Once,  *)
(* and waits for the workers on a sync.WaitGroup.                          *)
(*                                                                         *)
(* Each action is one atomic step of one goroutine: a step ends at every   *)
(* access to shared state (stopChan, once, counter, wg, stdout, the file). *)
(* The model follows the latest variant of the program (the one with the   *)
(* -output flag); the older variants have the same search engine.          *)
(* The processed-counter is a uint64 in the code; the model caps it at     *)
(* MaxProcessed, far below 2^64, so no wrap-around is reachable.           *)
(***************************************************************************)
EXTENDS Integers, Sequences, FiniteSets, TLC

\* ---- bounds of the model -------------------------------------------------
MaxThreads == 2      \* largest -threads value tried
MaxCPU == 2          \* largest runtime.NumCPU() tried
MaxProcessed == 2    \* iterations that derive a non-matching address
MaxFail == 1         \* failed derivations counted (the count saturates)
MaxAddrLen == 3      \* longest address the suffix test is tried on
MaxSuffixLen == 2    \* longest suffix the suffix test is tried on

\* ---- values ----------------------------------------------------------------
Workers == 1..(IF MaxThreads > MaxCPU THEN MaxThreads ELSE MaxCPU)

\* strings are sequences of one-character strings
ToLowerChar(c) ==
    IF c = "A" THEN "a" ELSE IF c = "B" THEN "b" ELSE c

ToLower(s) == [k \in 1..Len(s) |-> ToLowerChar(s[k])]

HasSuffix(s, suffix) ==
    /\ Len(s) >= Len(suffix)
    /\ SubSeq(s, Len(s) - Len(suffix) + 1, Len(s)) = suffix

\* a test that folds the suffix but not the address
SuffixMatchesFoldSuffixOnly(addressStr, cfg) ==
    IF cfg.CaseSensitive
    THEN HasSuffix(addressStr, cfg.Suffix)
    ELSE HasSuffix(addressStr, ToLower(cfg.Suffix))

\* the suffix test of processWallets
SuffixMatches(addressStr, cfg) ==
    IF cfg.CaseSensitive
    THEN HasSuffix(addressStr, cfg.Suffix)
    ELSE HasSuffix(ToLower(addressStr), ToLower(cfg.Suffix))

\* addresses the (opaque) deriver may return, and command lines tried
Addresses == {<<"B", "A">>, <<"B", "a">>, <<"a", "B">>}
SuffixFlags == {<< >>, <<"A">>, <<"B", "a">>}
VersionFlags == {3, 4, 5}
ThreadFlags == (0 - 1)..MaxThreads
OutputFlags == {"", "out.txt"}

\* characters and strings the suffix test is tried on by itself
Alphabet == {"A", "a", "B", "b", "1"}
Strings(n) == UNION {[1..k -> Alphabet] : k \in 0..n}

VARIABLES
    config,        \* the flags, then the Config parseFlags returns
    mainpc,        \* position of main / runWalletGenerator
    i,             \* loop index of the spawn loop
    stopChan,      \* "open" or "closed"
    once,          \* sync.Once: TRUE once its function has run
    panicked,      \* a close of a closed channel panicked
    closes,        \* close(stopChan) calls executed
    counter,       \* the processed-counter
    wg,            \* the WaitGroup's count
    pc,            \* position of each worker goroutine
    addressStr,    \* each worker's derived address while it reports it
    rpc,           \* position of the reporter goroutine
    lastCount,     \* logProgress's lastCount
    sumDeltas,     \* sum of the deltas logged so far
    foundReports,  \* "=== FOUND ===" blocks printed
    fileRecords,   \* records appended to the output file
    writeErrors,   \* "Failed to write to file" lines logged
    derived,       \* derivations that returned a non-matching address
    failed,        \* derivations that returned an error, up to MaxFail
    numCPU,        \* what runtime.NumCPU() returned, 0 while it was not called
    sinceSample,   \* increments applied since the reporter's last sample
    incAfterStop,  \* increments applied after stopChan was closed
    ticksAfterStop,\* reports logged after stopChan was closed (2: two or more)
    matchIn,       \* the suffix test on its own: address, suffix, case flag
    matchOut       \* ... its result: "none" (not run), "match", "nomatch"

vars == <<config, mainpc, i, stopChan, once, panicked, closes, counter, wg,
          pc, addressStr, rpc, lastCount, sumDeltas,
          foundReports, fileRecords, writeErrors, derived, failed,
          numCPU, sinceSample, incAfterStop, ticksAfterStop,
          matchIn, matchOut>>

mainVars == <<config, mainpc, i, numCPU>>
syncVars == <<stopChan, once, panicked, closes>>
workerVars == <<pc, addressStr>>
reporterVars == <<rpc, lastCount, sumDeltas, sinceSample, ticksAfterStop>>
sinkVars == <<foundReports, fileRecords, writeErrors>>
ghostVars == <<derived, failed, incAfterStop, matchIn, matchOut>>

\* the state runWalletGenerator starts the search engine in
EngineInit ==
    /\ mainpc = "parse"
    /\ i = 0
    /\ stopChan = "open"
    /\ once = FALSE
    /\ panicked = FALSE
    /\ closes = 0
    /\ counter = 0
    /\ wg = 0
    /\ pc = [w \in Workers |-> "idle"]
    /\ addressStr = [w \in Workers |-> << >>]
    /\ rpc = "idle"
    /\ lastCount = 0
    /\ sumDeltas = 0
    /\ foundReports = 0
    /\ fileRecords = 0
    /\ writeErrors = 0
    /\ derived = 0
    /\ failed = 0
    /\ numCPU = 0
    /\ sinceSample = 0
    /\ incAfterStop = 0
    /\ ticksAfterStop = 0

NoMatchInput == [address |-> << >>, suffix |-> << >>, caseSensitive |-> FALSE]

Init ==
    /\ config \in [Version : VersionFlags, Suffix : SuffixFlags,
                   CaseSensitive : BOOLEAN, Threads : ThreadFlags,
                   Output : OutputFlags]
    /\ EngineInit
    /\ matchIn = NoMatchInput
    /\ matchOut = "none"

\* the process runs until main returns, os.Exit is called or a goroutine panics
Running == mainpc \notin {"exit1", "exited"} /\ ~panicked

\* ---- sync primitives ------------------------------------------------------
\* a Once that runs its function on every call
OnceAlwaysRuns(done) == TRUE

\* sync.Once.Do: the function runs only on the first call
OnceShouldRun(done) == ~done

\* a poll that never sees the close
StopNeverReady(ch) == FALSE

\* a receive from stopChan is ready exactly when the channel is closed
StopReady(ch) == ch = "closed"

\* a spawn loop that forgets wg.Add(1)
WgAddMissing(n) == n

WgAdd(n) == n + 1

\* a worker that forgets wg.Done()
WgDoneMissing(n) == n

WgDone(n) == n - 1

\* a Wait that does not block
WgWaitNoBlock(n) == TRUE

\* wg.Wait returns when the count is zero
WgWaitReady(n) == n = 0

\* a plain read-modify-write that loses an update under contention
LostUpdateAdd(c, delta) == IF c >= 1 THEN c ELSE c + delta

AtomicAddUint64(c, delta) == c + delta

AtomicLoadUint64(c) == c

\* ---- main / runWalletGenerator -------------------------------------------
\* a parseFlags that checks the suffix only
FlagsInvalidSuffixOnly(cfg) == cfg.Suffix = << >>

\* *suffix == "" || (*version != 4 && *version != 5)
FlagsInvalid(cfg) ==
    cfg.Suffix = << >> \/ (cfg.Version # 4 /\ cfg.Version # 5)

\* a coordinator that leaves the configured thread count as it is
UnresolvedThreads(threads, ncpu) == threads

\* if config.Threads == 0 { config.Threads = runtime.NumCPU() }
ResolvedThreads(threads, ncpu) == IF threads = 0 THEN ncpu ELSE threads

ParseFlags ==
    /\ mainpc = "parse"
    /\ mainpc' = IF FlagsInvalid(config) THEN "exit1" ELSE "resolve"
    /\ UNCHANGED <<config, i, numCPU, syncVars, counter, wg, workerVars, reporterVars,
                   sinkVars, ghostVars>>

ResolveThreads ==
    /\ mainpc = "resolve"
    /\ IF config.Threads = 0
       THEN \E n \in 1..MaxCPU :
               /\ numCPU' = n
               /\ config' = [config EXCEPT
                                !.Threads = ResolvedThreads(config.Threads, n)]
       ELSE config' = config /\ numCPU' = numCPU
    /\ mainpc' = "start_reporter"
    /\ UNCHANGED <<i, syncVars, counter, wg, workerVars, reporterVars,
                   sinkVars, ghostVars>>

StartReporter ==
    /\ mainpc = "start_reporter"
    /\ rpc' = "loop"
    /\ mainpc' = "spawn"
    /\ UNCHANGED <<config, i, numCPU, syncVars, counter, wg, workerVars,
                   lastCount, sumDeltas, sinceSample, ticksAfterStop, sinkVars,
                   ghostVars>>

SpawnWorker ==
    /\ mainpc = "spawn"
    /\ Running
    /\ i < config.Threads
    /\ wg' = WgAdd(wg)
    /\ pc' = [pc EXCEPT ![i + 1] = "poll"]
    /\ i' = i + 1
    /\ UNCHANGED <<config, mainpc, numCPU, syncVars, counter, addressStr, reporterVars,
                   sinkVars, ghostVars>>

SpawnDone ==
    /\ mainpc = "spawn"
    /\ Running
    /\ ~(i < config.Threads)
    /\ mainpc' = "wait"
    /\ UNCHANGED <<config, i, numCPU, syncVars, counter, wg, workerVars,
                   reporterVars, sinkVars, ghostVars>>

WgWait ==
    /\ mainpc = "wait"
    /\ Running
    /\ WgWaitReady(wg)
    /\ mainpc' = "returned"
    /\ UNCHANGED <<config, i, numCPU, syncVars, counter, wg, workerVars,
                   reporterVars, sinkVars, ghostVars>>

\* main returns: the process ends and takes every goroutine with it
ProcessExit ==
    /\ mainpc = "returned"
    /\ Running
    /\ mainpc' = "exited"
    /\ UNCHANGED <<config, i, numCPU, syncVars, counter, wg, workerVars,
                   reporterVars, sinkVars, ghostVars>>

\* ---- processWallets -------------------------------------------------------
\* a failed derivation that ends the worker (return instead of continue)
DeriveFailReturns == "done"

\* where the worker goes after a failed derivation (continue)
DeriveFailNext == "poll"

\* select { case <-stopChan: return; default: ... }
Poll(w) ==
    /\ pc[w] = "poll"
    /\ Running
    /\ IF StopReady(stopChan)
       THEN /\ pc' = [pc EXCEPT ![w] = "done"]
            /\ wg' = WgDone(wg)
       ELSE /\ pc' = [pc EXCEPT ![w] = "derive"]
            /\ wg' = wg
    /\ UNCHANGED <<mainVars, syncVars, counter, addressStr, reporterVars,
                   sinkVars, ghostVars>>

\* wallet.NewSeed, generateV5Wallet / generateV4Wallet return an error
DeriveFail(w) ==
    /\ pc[w] = "derive"
    /\ Running
    /\ failed' = IF failed < MaxFail THEN failed + 1 ELSE failed
    /\ pc' = [pc EXCEPT ![w] = DeriveFailNext]
    /\ wg' = IF DeriveFailNext = "done" THEN WgDone(wg) ELSE wg
    /\ UNCHANGED <<mainVars, syncVars, counter, addressStr, reporterVars,
                   sinkVars, derived, incAfterStop, matchIn, matchOut>>

\* ... return an address the suffix test rejects
DeriveNoMatch(w) ==
    /\ pc[w] = "derive"
    /\ Running
    /\ derived < MaxProcessed
    /\ \E a \in Addresses : ~SuffixMatches(a, config)
    /\ derived' = derived + 1
    /\ pc' = [pc EXCEPT ![w] = "inc"]
    /\ UNCHANGED <<mainVars, syncVars, counter, wg, addressStr, reporterVars,
                   sinkVars, failed, incAfterStop, matchIn, matchOut>>

\* ... return an address the suffix test accepts
DeriveMatch(w) ==
    /\ pc[w] = "derive"
    /\ Running
    /\ \E a \in Addresses :
          /\ SuffixMatches(a, config)
          /\ addressStr' = [addressStr EXCEPT ![w] = a]
    /\ pc' = [pc EXCEPT ![w] = "found"]
    /\ UNCHANGED <<mainVars, syncVars, counter, wg, reporterVars, sinkVars,
                   ghostVars>>

\* a sink that gives up the worker when the record cannot be written
PrintNextAbortOnError(writeFailed) == IF writeFailed THEN "done" ELSE "once"

\* where the worker goes after printFoundWallet: the write error is only
\* logged, printFoundWallet returns nothing
PrintNext(writeFailed) == "once"

\* printFoundWallet(seed, addressStr, config.Output)
PrintFoundWallet(w) ==
    /\ pc[w] = "found"
    /\ Running
    /\ foundReports' = foundReports + 1
    /\ \E writeFailed \in BOOLEAN :
          /\ config.Output = "" => ~writeFailed
          /\ fileRecords' = IF config.Output # "" /\ ~writeFailed
                            THEN fileRecords + 1 ELSE fileRecords
          /\ writeErrors' = IF writeFailed THEN writeErrors + 1 ELSE writeErrors
          /\ pc' = [pc EXCEPT ![w] = PrintNext(writeFailed)]
          /\ wg' = IF PrintNext(writeFailed) = "done" THEN WgDone(wg) ELSE wg
    /\ addressStr' = [addressStr EXCEPT ![w] = << >>]
    /\ UNCHANGED <<mainVars, syncVars, counter, reporterVars, ghostVars>>

\* once.Do(func() { close(stopChan) }); return
OnceDoClose(w) ==
    /\ pc[w] = "once"
    /\ Running
    /\ IF OnceShouldRun(once)
       THEN /\ once' = TRUE
            /\ closes' = closes + 1
            /\ IF stopChan = "closed"
               THEN panicked' = TRUE /\ stopChan' = stopChan
               ELSE stopChan' = "closed" /\ panicked' = panicked
       ELSE UNCHANGED <<once, closes, stopChan, panicked>>
    /\ pc' = [pc EXCEPT ![w] = "done"]
    /\ wg' = WgDone(wg)
    /\ UNCHANGED <<mainVars, counter, addressStr, reporterVars, sinkVars,
                   ghostVars>>

\* atomic.AddUint64(counter, 1)
Increment(w) ==
    /\ pc[w] = "inc"
    /\ Running
    /\ counter' = AtomicAddUint64(counter, 1)
    /\ sinceSample' = sinceSample + 1
    /\ incAfterStop' = IF stopChan = "closed" THEN incAfterStop + 1
                                               ELSE incAfterStop
    /\ pc' = [pc EXCEPT ![w] = "poll"]
    /\ UNCHANGED <<mainVars, syncVars, wg, addressStr, rpc, lastCount,
                   sumDeltas, ticksAfterStop, sinkVars, derived, failed,
                   matchIn, matchOut>>

\* ---- logProgress ----------------------------------------------------------
\* a reporter that never advances lastCount
KeepLastCount(currentCount, last) == last

\* lastCount = currentCount
NewLastCount(currentCount, last) == currentCount

\* a subtraction with its operands swapped
SwappedSub(a, b) == b - a

\* currentCount - lastCount on uint64: no wrap-around while a >= b
Uint64Sub(a, b) == a - b

\* a reporter that swaps the counter back to zero at each sample
ResetAfterSample(c) == 0

\* the counter after the reporter's sample: atomic.LoadUint64 only reads
CounterAfterSample(c) == c

\* a ticker made once, outside the loop: a tick may already be pending when
\* the select is entered
PendingTickReady == TRUE

\* time.After(1 * time.Second) is evaluated on entering the select, so its
\* timer is not ready at that moment (the goroutine is assumed not to be
\* held up for a whole second between the two)
FreshTimerReady == FALSE

\* a wait that sleeps the interval out (time.Sleep) instead of selecting
WaitNotCancellable(ch) == FALSE

\* the blocked select wakes on stopChan as well as on the timer
WaitCancellable(ch) == StopReady(ch)

\* case <-time.After(1 * time.Second): sample, log the delta
Sample ==
    LET currentCount == AtomicLoadUint64(counter)
        processedLastSecond == Uint64Sub(currentCount, lastCount)
    IN /\ lastCount' = NewLastCount(currentCount, lastCount)
       /\ sumDeltas' = sumDeltas + processedLastSecond
       /\ counter' = CounterAfterSample(counter)
       /\ sinceSample' = 0
       /\ ticksAfterStop' = IF stopChan = "closed" /\ ticksAfterStop < 2
                            THEN ticksAfterStop + 1 ELSE ticksAfterStop
       /\ rpc' = "loop"
       /\ UNCHANGED <<mainVars, syncVars, wg, workerVars, sinkVars, ghostVars>>

\* the reporter enters its select: with stopChan already closed that case is
\* ready at once and the fresh one-second timer is not
ReporterSelect ==
    /\ rpc = "loop"
    /\ Running
    /\ \/ /\ rpc' = IF StopReady(stopChan) THEN "done" ELSE "wait"
          /\ UNCHANGED <<mainVars, syncVars, counter, wg, workerVars, lastCount,
                         sumDeltas, sinceSample, ticksAfterStop, sinkVars,
                         ghostVars>>
       \/ /\ FreshTimerReady
          /\ Sample

\* case <-stopChan: return
ReporterStop ==
    /\ rpc = "wait"
    /\ Running
    /\ WaitCancellable(stopChan)
    /\ rpc' = "done"
    /\ UNCHANGED <<mainVars, syncVars, counter, wg, workerVars, lastCount,
                   sumDeltas, sinceSample, ticksAfterStop, sinkVars, ghostVars>>

\* the timer fires while the reporter is blocked in the select
ReporterTick ==
    /\ rpc = "wait"
    /\ Running
    /\ Sample

ReporterStep ==
    \/ ReporterSelect
    \/ ReporterStop
    \/ ReporterTick

\* ---- the suffix test on its own -------------------------------------------
\* the test as processWallets applies it to one address
ApplyMatcher ==
    /\ matchOut = "none"
    /\ matchOut' = IF SuffixMatches(matchIn.address,
                                    [config EXCEPT
                                       !.Suffix = matchIn.suffix,
                                       !.CaseSensitive = matchIn.caseSensitive])
                   THEN "match"
                   ELSE "nomatch"
    /\ UNCHANGED <<mainVars, syncVars, counter, wg, workerVars, reporterVars,
                   sinkVars, derived, failed, incAfterStop, matchIn>>

MatcherInit ==
    /\ config = [Version |-> 5, Suffix |-> <<"A">>, CaseSensitive |-> FALSE,
                 Threads |-> 0, Output |-> ""]
    /\ EngineInit
    /\ matchIn \in [address : Strings(MaxAddrLen), suffix : Strings(MaxSuffixLen),
                    caseSensitive : BOOLEAN]
    /\ matchOut = "none"

MatcherSpec == MatcherInit /\ [][ApplyMatcher]_vars

\* ---- specifications -------------------------------------------------------
MainStep ==
    \/ ParseFlags
    \/ ResolveThreads
    \/ StartReporter
    \/ SpawnWorker
    \/ SpawnDone
    \/ WgWait
    \/ ProcessExit

WorkerStep(w) ==
    \/ Poll(w)
    \/ DeriveFail(w)
    \/ DeriveNoMatch(w)
    \/ DeriveMatch(w)
    \/ PrintFoundWallet(w)
    \/ OnceDoClose(w)
    \/ Increment(w)

Next ==
    \/ ParseFlags
    \/ ResolveThreads
    \/ StartReporter
    \/ SpawnWorker
    \/ SpawnDone
    \/ WgWait
    \/ ProcessExit
    \/ \E w \in Workers : Poll(w)
    \/ \E w \in Workers : DeriveFail(w)
    \/ \E w \in Workers : DeriveNoMatch(w)
    \/ \E w \in Workers : DeriveMatch(w)
    \/ \E w \in Workers : PrintFoundWallet(w)
    \/ \E w \in Workers : OnceDoClose(w)
    \/ \E w \in Workers : Increment(w)
    \/ ReporterSelect
    \/ ReporterStop
    \/ ReporterTick

Spec == Init /\ [][Next]_vars

\* The Go scheduler runs every runnable goroutine eventually (weak fairness of
\* main and of each worker); seeds are drawn at random, so a worker that
\* derives addresses again and again eventually derives a matching one
\* (strong fairness of DeriveMatch).  The wallet version, the output path and
\* the suffix do not influence the scheduling of the search, so the fair runs
\* start from the command lines with -version 5, -o and -suffix A and both
\* case settings, with -threads negative (no worker) or 0 (one worker for
\* each unit runtime.NumCPU() reports).
FairInit ==
    /\ Init
    /\ config.Version = 5
    /\ config.Output = "out.txt"
    /\ config.Suffix = <<"A">>
    /\ config.Threads <= 0

FairSpec ==
    /\ FairInit
    /\ [][Next]_vars
    /\ WF_vars(MainStep)
    /\ \A w \in Workers : WF_vars(WorkerStep(w)) /\ SF_vars(DeriveMatch(w))

\* The reporter, too, is a goroutine the scheduler runs eventually.
ReporterFairSpec ==
    /\ FairInit
    /\ [][Next]_vars
    /\ WF_vars(ReporterStep)

\* ---- properties -----------------------------------------------------------
Returned == mainpc \in {"returned", "exited"}

Exited(w) == pc[w] \in {"idle", "done"}

\* every spawned worker has left its loop and no more will be spawned
AllWorkersExited ==
    /\ mainpc \in {"wait", "returned", "exited"}
    /\ \A w \in Workers : Exited(w)

InIncrement == {w \in Workers : pc[w] = "inc"}

\* C1: in every run exactly one FOUND report is displayed and, with an output
\* path configured, at most one record is appended, however many workers
\* derive a matching address.
C1_ExactlyOneReport ==
    /\ foundReports <= 1
    /\ fileRecords <= 1
    /\ (stopChan = "closed" => foundReports = 1)

\* C2: the termination signal goes from running to stopped at most once and is
\* never reset: of all the once.Do attempts exactly one performs the close, no
\* attempt panics and the channel is never closed twice.
C2_StopRaisedOnce ==
    /\ [](closes <= 1 /\ ~panicked /\ (stopChan = "closed" <=> closes = 1)
          /\ (once <=> closes = 1))
    /\ [][stopChan = "closed" => stopChan' = "closed"]_vars

C2_Witness ==
    /\ foundReports = 2
    /\ pc[1] = "done" /\ pc[2] = "done"
    /\ closes = 1
    /\ stopChan = "closed"

\* C3: once all workers have exited, the processed-counter equals the number of
\* iterations, over all workers, that derived an address which did not match.
C3_NoLostIncrement == AllWorkersExited => counter = derived

C3_Witness ==
    /\ AllWorkersExited
    /\ i >= 2
    /\ counter >= 2
    /\ failed >= 1

\* C4: an iteration whose derivation fails (the worker leaves the derivation
\* with neither a match nor an address to count) leaves the counter unchanged,
\* does not raise the termination signal, prints no FOUND report, and sends
\* the worker back to the poll of its next iteration; nothing else moves.
C4_DeriveFailSkips ==
    [][\A w \in Workers :
          (pc[w] = "derive" /\ pc'[w] \notin {"derive", "inc", "found"}) =>
              /\ pc'[w] = "poll"
              /\ failed' >= failed /\ failed' >= 1 /\ derived' = derived
              /\ counter' = counter
              /\ stopChan' = stopChan /\ once' = once /\ closes' = closes
              /\ foundReports' = foundReports /\ fileRecords' = fileRecords
              /\ wg' = wg /\ mainpc' = mainpc
              /\ \A v \in Workers \ {w} : pc'[v] = pc[v]]_vars

C4_Witness ==
    /\ failed >= 1
    /\ stopChan = "open"
    /\ counter >= 1
    /\ \E w \in Workers : pc[w] = "derive"

\* C5: a worker that polls the closed signal exits at that step without
\* deriving or counting, and an exited worker never works again; the poll is
\* the only way into a derivation and is never blocked; a reporter that has
\* exited samples and emits nothing more.
C5_StoppedObserverIdle ==
    /\ [](\A w \in Workers : pc[w] = "poll" /\ Running => ENABLED Poll(w))
    /\ [][/\ \A w \in Workers :
               /\ pc[w] = "done" => pc'[w] = "done"
               /\ (pc[w] = "poll" /\ stopChan = "closed" /\ pc'[w] # pc[w]) =>
                      /\ pc'[w] = "done"
                      /\ counter' = counter /\ derived' = derived
                      /\ failed' = failed /\ foundReports' = foundReports
               /\ (pc'[w] = "derive" /\ pc[w] # "derive") =>
                      pc[w] = "poll" /\ stopChan = "open"
          /\ AllWorkersExited =>
                 /\ counter' = counter /\ derived' = derived
                 /\ failed' = failed /\ foundReports' = foundReports
          /\ rpc = "done" =>
                 rpc' = "done" /\ lastCount' = lastCount /\ sumDeltas' = sumDeltas
       ]_vars

C5_Witness ==
    /\ foundReports = 1
    /\ i = 2
    /\ pc[1] = "done" /\ pc[2] = "done"
    /\ rpc = "done"
    /\ counter >= 1

\* C6: the run returns only after every worker it started has exited.
C6_ReturnAfterWorkersExit == Returned => \A w \in Workers : Exited(w)

C6_Witness ==
    /\ mainpc = "returned"
    /\ i = 2
    /\ pc[1] = "done" /\ pc[2] = "done"

\* C7: under fair scheduling, once the termination signal is raised every
\* worker exits and the coordinator's wait returns.
C7_StopLeadsToReturn ==
    (stopChan = "closed") ~> (Returned /\ \A w \in Workers : Exited(w))

C7_Witness ==
    /\ stopChan = "closed"
    /\ mainpc = "wait"
    /\ \E w \in Workers : pc[w] = "inc"

\* C8: with derivations failing on some iterations, a run whose workers keep
\* iterating still eventually reports a match, and the counter counts exactly
\* the iterations that derived a non-matching address, never a failed one.
C8_MatchDespiteFailures ==
    /\ [](counter + Cardinality(InIncrement) = derived)
    /\ (\E w \in Workers : pc[w] = "derive") ~> (foundReports >= 1)

C8_Witness ==
    /\ failed >= 1
    /\ foundReports >= 1
    /\ counter >= 1

\* C9 as stated: at run completion the sum of the emitted deltas equals the
\* final value of the processed-counter.
C9_SumEqualsFinalCounter == Returned => sumDeltas = counter

\* C9 amended: the sum of the emitted deltas equals the reporter's last sample
\* of the counter, which never exceeds the counter.
C9_SumEqualsLastSample == sumDeltas = lastCount /\ lastCount <= counter

C9_Witness ==
    /\ Returned
    /\ sumDeltas >= 1
    /\ sumDeltas < counter

\* C10 as stated: when a run with at least one worker returns, the reporter
\* has exited as well as every worker.
C10_AllTasksJoined ==
    (Returned /\ config.Threads >= 1) =>
        rpc = "done" /\ \A w \in Workers : Exited(w)

\* C10 amended: when the run returns, each of the config.Threads workers has
\* been started and has exited and the wait group is at zero; the reporter has
\* been started (it is not joined).
C10_WorkersJoined ==
    Returned =>
        /\ rpc # "idle"
        /\ wg = 0
        /\ \A w \in Workers : IF w <= config.Threads THEN pc[w] = "done"
                                                     ELSE pc[w] = "idle"

C10_Witness ==
    /\ mainpc = "returned"
    /\ config.Threads = 2
    /\ pc[1] = "done" /\ pc[2] = "done"
    /\ rpc = "wait"

Started == {w \in Workers : pc[w] # "idle"}

MidIteration == {w \in Workers : pc[w] \in {"derive", "inc"}}

\* a reporter step that samples: it leaves the blocked select for the loop top
ReporterSampled == rpc = "wait" /\ rpc' = "loop"

\* C11: the reporter's wait is cancellable: blocked in its select with the
\* signal raised it can exit at once, it logs at most one more report, and
\* under fair scheduling it exits (unless the process ends first).
C11_WaitCancellable ==
    /\ []((rpc = "wait" /\ stopChan = "closed" /\ Running) => ENABLED ReporterStop)
    /\ [](ticksAfterStop <= 1)
    /\ (stopChan = "closed") ~> (rpc = "done" \/ ~Running)

C11_Witness ==
    /\ stopChan = "closed"
    /\ rpc = "done"
    /\ ticksAfterStop = 0
    /\ lastCount >= 1
    /\ Running

\* C12: for every thread count the command line accepts, the worker count at
\* search start is at least 1.
C12_WorkerCountPositive ==
    mainpc \in {"start_reporter", "spawn", "wait", "returned", "exited"} =>
        config.Threads >= 1

\* C13: a thread count of 0 is resolved to runtime.NumCPU() before any worker
\* starts, and the coordinator starts exactly the resolved number of workers.
C13_ThreadsResolved ==
    /\ Started # {} => mainpc \notin {"parse", "resolve", "exit1"}
    /\ mainpc \notin {"parse", "resolve", "exit1"} =>
           /\ config.Threads # 0
           /\ numCPU # 0 => config.Threads = numCPU
    /\ (mainpc \in {"wait", "returned", "exited"} /\ config.Threads >= 1) =>
           /\ Started = 1..config.Threads
           /\ i = config.Threads

C13_Witness ==
    /\ numCPU = 2
    /\ mainpc = "wait"
    /\ Started = {1, 2}

\* the command lines the spec has rejected
InvalidCommandLine == config.Suffix = << >> \/ config.Version \notin {4, 5}

\* C14: with an empty suffix or a version other than 4 and 5 the process goes
\* from parseFlags to os.Exit(1) and nothing of the search is ever started or
\* touched.
C14_InvalidFlagsStartNothing ==
    /\ [](InvalidCommandLine =>
             /\ mainpc \in {"parse", "exit1"}
             /\ rpc = "idle" /\ Started = {}
             /\ counter = 0 /\ stopChan = "open" /\ ~once /\ wg = 0
             /\ numCPU = 0 /\ foundReports = 0)
    /\ [][(InvalidCommandLine /\ mainpc = "parse") => mainpc' = "exit1"]_vars

C14_Witness ==
    /\ mainpc = "exit1"
    /\ config.Version = 3
    /\ config.Suffix # << >>

\* C15: a failed write of the record is only logged: the FOUND report is
\* printed in that step, the worker goes on to once.Do, and a run in which a
\* write failed returns with the signal raised and without a panic.
C15_WriteFailureOnlyLogged ==
    /\ [][writeErrors' # writeErrors =>
             /\ writeErrors' = writeErrors + 1
             /\ foundReports' = foundReports + 1
             /\ fileRecords' = fileRecords
             /\ stopChan' = stopChan /\ wg' = wg /\ mainpc' = mainpc
             /\ \E w \in Workers : pc[w] = "found" /\ pc'[w] = "once"]_vars
    /\ []((writeErrors >= 1 /\ Returned) =>
             /\ stopChan = "closed"
             /\ foundReports = writeErrors + fileRecords
             /\ ~panicked)

C15_Witness ==
    /\ writeErrors >= 1
    /\ fileRecords = 0
    /\ mainpc = "returned"
    /\ stopChan = "closed"

\* the reference suffix predicate: some tail of the address equals the suffix
\* character for character, letters compared without case when the test is
\* case-insensitive
SameLetter(c, d) == \E pair \in {{"A", "a"}, {"B", "b"}} : {c, d} \subseteq pair

RefEqualChar(c, d, caseSensitive) == c = d \/ (~caseSensitive /\ SameLetter(c, d))

RefMatches(a, suffix, caseSensitive) ==
    \E p \in 0..Len(a) :
        /\ p + Len(suffix) = Len(a)
        /\ \A j \in 1..Len(suffix) : RefEqualChar(a[p + j], suffix[j], caseSensitive)

\* C16: for every address and suffix over the alphabet and both case settings
\* the worker's suffix test gives the answer of the reference predicate.
C16_MatcherEqualsReference ==
    matchOut # "none" =>
        (matchOut = "match" <=>
            RefMatches(matchIn.address, matchIn.suffix, matchIn.caseSensitive))

C16_Witness ==
    /\ matchOut = "match"
    /\ matchIn = [address |-> <<"1", "A", "B">>, suffix |-> <<"a", "b">>,
                  caseSensitive |-> FALSE]

\* C17: the counter starts at 0, no step decreases it, and every step of the
\* reporter leaves it unchanged.
C17_CounterMonotonic ==
    /\ counter = 0
    /\ [][counter' >= counter]_vars
    /\ [][(rpc' # rpc \/ lastCount' # lastCount \/ sumDeltas' # sumDeltas) =>
             counter' = counter]_vars

C17_Witness ==
    /\ counter >= 2
    /\ lastCount >= 1
    /\ rpc = "loop"

\* C18: every delta the reporter logs is non-negative and is the number of
\* increments applied since its previous sample; lastCount never exceeds the
\* counter and becomes the current sample at each report.
C18_DeltaIsIncrementsSinceSample ==
    [][ReporterSampled =>
          /\ lastCount <= counter
          /\ sumDeltas' - sumDeltas = sinceSample
          /\ sumDeltas' - sumDeltas >= 0
          /\ lastCount' = counter
          /\ sinceSample' = 0]_vars

C18_Witness ==
    /\ sumDeltas = 2
    /\ sinceSample = 0
    /\ rpc = "loop"

\* C19: after the signal is raised every worker finishes at most the iteration
\* it had begun, so the increments after the raise plus the workers still in
\* an iteration never exceed config.Threads - 1.
C19_AtMostOneIterationAfterStop ==
    stopChan = "closed" =>
        incAfterStop + Cardinality(MidIteration) <= config.Threads - 1

C19_Witness ==
    /\ stopChan = "closed"
    /\ config.Threads = 2
    /\ incAfterStop = 1

\* C20: the reporter logs at most one report after the signal is raised, and
\* only from a select it was already blocked in; entering its select with the
\* signal raised it exits without sampling.
C20_AtMostOneReportAfterStop ==
    /\ [](ticksAfterStop <= 1)
    /\ [][ticksAfterStop' # ticksAfterStop =>
             rpc = "wait" /\ ticksAfterStop = 0]_vars
    /\ [][(stopChan = "closed" /\ rpc = "loop" /\ rpc' # rpc) =>
             /\ rpc' = "done"
             /\ lastCount' = lastCount /\ sumDeltas' = sumDeltas]_vars

C20_Witness ==
    /\ ticksAfterStop = 1
    /\ rpc = "done"

====
